---- MODULE Spec2Model ----
(***************************************************************************)
(* Modular exponentiation, src/ModularExponentation.py: brute_force,       *)
(* repeated_squares and repeated_squares_any, each called on the same      *)
(* arguments (a, b, m) one after the other, as main() calls them.  A call  *)
(* is a sequence of steps over the function's local variables and ends by  *)
(* returning a value or raising an exception.                              *)
(*                                                                         *)
(* Python's int has no width.  The exponent b and the remaining exponent p *)
(* are kept as binary digits (least significant first), so that exponents  *)
(* beyond the 53-bit significand of a Python float can be called: p /= 2   *)
(* is Python's true division, whose result is a float.  The other          *)
(* quantities stay small on the calls made here and are TLA+ integers.     *)
(***************************************************************************)
EXTENDS Integers, Sequences, FiniteSets, TLC

\* Bounds of the calls that are made.
MaxA == 4       \* bases a range over -MaxNeg..MaxA
MaxB == 9       \* narrow exponents b range over -MaxNeg..MaxB
MaxM == 5       \* moduli m range over -MaxNeg..MaxM
MaxNeg == 1

\* A Python float: 53 significant bits, values below 2^1024 (an int / int
\* quotient beyond them raises OverflowError, which no call made here reaches).
MantBits == 53
MaxExp == 1024

----------------------------------------------------------------------------
(* Python ints as [neg, mag], mag the binary digits of the absolute value,  *)
(* least significant first, no leading zero (0 is the empty sequence).      *)

RECURSIVE Bits(_)
Bits(n) == IF n = 0 THEN <<>> ELSE <<n % 2>> \o Bits(n \div 2)

RECURSIVE Value(_)
Value(s) == IF s = <<>> THEN 0 ELSE Head(s) + 2 * Value(Tail(s))

PyInt(n) == [neg |-> n < 0, mag |-> Bits(IF n < 0 THEN -n ELSE n)]

\* 2^e + d, for 0 <= d < 2^e
Pow2Plus(e, d) ==
    LET low == Bits(d)
    IN  [j \in 1..(e + 1) |-> IF j = e + 1 THEN 1
                              ELSE IF j <= Len(low) THEN low[j] ELSE 0]

IsPositive(n) == ~n.neg /\ n.mag # <<>>
IsOdd(n) == n.mag # <<>> /\ Head(n.mag) = 1

\* i < n, for a TLA+ integer i and a Python int n that the loop counts up to
LessThan(j, n) == ~n.neg /\ j < Value(n.mag)

\* n - 1 for odd n > 0: the lowest digit is cleared
Sub1Odd(n) ==
    [n EXCEPT !.mag = IF Tail(n.mag) = <<>> THEN <<>> ELSE <<0>> \o Tail(n.mag)]

RECURSIVE Inc(_)
Inc(s) == IF s = <<>> THEN <<1>>
          ELSE IF Head(s) = 0 THEN <<1>> \o Tail(s)
          ELSE <<0>> \o Inc(Tail(s))

\* The float nearest to an integer (round half to even on MantBits digits).
RoundDouble(s) ==
    IF Len(s) <= MantBits THEN s
    ELSE LET d == Len(s) - MantBits
             kept == SubSeq(s, d + 1, Len(s))
             guard == s[d]
             sticky == \E j \in 1..(d - 1) : s[j] = 1
             up == guard = 1 /\ (sticky \/ kept[1] = 1)
         IN  [j \in 1..d |-> 0] \o (IF up THEN Inc(kept) ELSE kept)

\* a % m of Python, m # 0: the result has the sign of m
PyMod(n, d) == IF d > 0 THEN n % d ELSE -((-n) % (-d))

\* p / 2 for even p > 0 (line 176): the exact quotient, rounded to a float
TrueDiv2(n) == [n EXCEPT !.mag = RoundDouble(Tail(n.mag))]

\* int / int raises OverflowError when the quotient is no float
DivOverflows(n) == Len(RoundDouble(Tail(n.mag))) > MaxExp

\* math.log(b, 2) for b > 0 (line 73): b is converted to a float, whose
\* base-2 logarithm is taken at its mathematical value: whole part and
\* whether a fractional part is left.
Log2(n) ==
    LET f == RoundDouble(n.mag)
    IN  [whole |-> Len(f) - 1, frac |-> \E j \in 1..(Len(f) - 1) : f[j] = 1]

FMod2IsTruncated(fl, v) == fl.whole % 2 = v

\* l % 2 == v for a float l and v in {0, 1} (line 80)
FMod2Is(fl, v) == ~fl.frac /\ fl.whole % 2 = v

\* bodies of the three loops
BruteStep(kk, aa, mm) == kk * PyMod(aa, mm)                 \* line 49
SquareStep(kk, mm) == kk * PyMod(kk, mm)                    \* line 87
OddStep(tt, xx, mm) == PyMod(tt * xx, mm)                   \* line 172
EvenStepDoubled(xx, mm) == PyMod(xx + xx, mm)
EvenStep(xx, mm) == PyMod(xx * xx, mm)                      \* line 175

----------------------------------------------------------------------------
VARIABLES a, b, m,     \* the arguments
          todo,        \* the functions still to be called on them
          fn, pc,      \* the function being executed and its position
          k, i, l,     \* locals of brute_force and repeated_squares
          t, x, p,     \* locals of repeated_squares_any
          assigned,    \* the locals of the current call that are bound
          steps,       \* iterations of the current call's loop so far
          pPrev,       \* p before the latest iteration
          out          \* how each call ended

vars == <<a, b, m, todo, fn, pc, k, i, l, t, x, p, assigned, steps, pPrev, out>>

Functions == {"brute_force", "repeated_squares", "repeated_squares_any"}

Entry == [brute_force |-> "L47", repeated_squares |-> "L73",
          repeated_squares_any |-> "L167"]

Pending == [status |-> "pending", value |-> 0, error |-> ""]

NarrowCalls ==
    { [a |-> aa, b |-> PyInt(bb), m |-> mm,
       todo |-> <<"brute_force", "repeated_squares", "repeated_squares_any">>] :
      aa \in (-MaxNeg)..MaxA, bb \in (-MaxNeg)..MaxB, mm \in (-MaxNeg)..MaxM }

\* Exponents beyond the precision of a float: 2^53 + 1 and 2^54 + 2.
WideExponents == { Pow2Plus(MantBits, 1), Pow2Plus(MantBits + 1, 2) }

\* brute_force is not called on a wide exponent (it would iterate b times);
\* repeated_squares is where its accumulator, which is not reduced, stays 0 or 1.
WideCalls ==
    { [a |-> aa, b |-> [neg |-> FALSE, mag |-> bb], m |-> mm,
       todo |-> IF aa % mm <= 1
                THEN <<"repeated_squares", "repeated_squares_any">>
                ELSE <<"repeated_squares_any">>] :
      aa \in 0..MaxA, bb \in WideExponents, mm \in 1..MaxM }

Init ==
    /\ \E c \in NarrowCalls \cup WideCalls :
          /\ a = c.a /\ b = c.b /\ m = c.m /\ todo = c.todo
    /\ fn = "" /\ pc = "idle"
    /\ k = 0 /\ i = 0 /\ l = [whole |-> 0, frac |-> FALSE]
    /\ t = 0 /\ x = 0 /\ p = PyInt(0)
    /\ assigned = {} /\ steps = 0 /\ pPrev = PyInt(0)
    /\ out = [f \in Functions |-> Pending]

Return(v) ==
    /\ pc' = "returned"
    /\ out' = [out EXCEPT ![fn] = [status |-> "returned", value |-> v, error |-> ""]]

Raise(e) ==
    /\ pc' = "raised"
    /\ out' = [out EXCEPT ![fn] = [status |-> "raised", value |-> 0, error |-> e]]

\* main: the next function is called on the arguments, with fresh locals
Call ==
    /\ pc \in {"idle", "returned", "raised"}
    /\ todo # <<>>
    /\ fn' = Head(todo) /\ todo' = Tail(todo)
    /\ pc' = Entry[Head(todo)]
    /\ k' = 0 /\ i' = 0 /\ l' = [whole |-> 0, frac |-> FALSE]
    /\ t' = 0 /\ x' = 0 /\ p' = PyInt(0)
    /\ assigned' = {} /\ steps' = 0 /\ pPrev' = PyInt(0)
    /\ UNCHANGED <<a, b, m, out>>

----------------------------------------------------------------------------
(* brute_force, lines 47-56 *)

bf_init ==
    /\ pc = "L47"
    /\ k' = 1 /\ i' = 0
    /\ assigned' = {"k"}
    /\ pc' = "L48"
    /\ UNCHANGED <<a, b, m, todo, fn, l, t, x, p, steps, pPrev, out>>

bf_loop ==
    /\ pc = "L48"
    /\ LessThan(i, b)
    /\ assigned' = assigned \cup {"i"}
    /\ IF m = 0
       THEN Raise("ZeroDivisionError") /\ UNCHANGED <<k, i, steps>>
       ELSE /\ k' = BruteStep(k, a, m)
            /\ i' = i + 1 /\ steps' = steps + 1
            /\ UNCHANGED <<pc, out>>
    /\ UNCHANGED <<a, b, m, todo, fn, l, t, x, p, pPrev>>

bf_return ==
    /\ pc = "L48"
    /\ ~LessThan(i, b)
    /\ IF m = 0 THEN Raise("ZeroDivisionError") ELSE Return(PyMod(k, m))
    /\ UNCHANGED <<a, b, m, todo, fn, k, i, l, t, x, p, assigned, steps, pPrev>>

----------------------------------------------------------------------------
(* repeated_squares, lines 73-88 *)

rs_log ==
    /\ pc = "L73"
    /\ IF ~IsPositive(b)
       THEN Raise("ValueError") /\ UNCHANGED <<l, assigned>>
       ELSE /\ l' = Log2(b) /\ assigned' = {"l"}
            /\ pc' = "L80" /\ UNCHANGED out
    /\ UNCHANGED <<a, b, m, todo, fn, k, i, t, x, p, steps, pPrev>>

rs_check ==
    /\ pc = "L80"
    /\ IF ~(FMod2Is(l, 1) \/ FMod2Is(l, 0))
       THEN Raise("TypeError")
       ELSE pc' = "L82" /\ UNCHANGED out
    /\ UNCHANGED <<a, b, m, todo, fn, k, i, l, t, x, p, assigned, steps, pPrev>>

rs_init ==
    /\ pc = "L82"
    /\ IF m = 0
       THEN Raise("ZeroDivisionError") /\ UNCHANGED <<k, assigned>>
       ELSE /\ k' = PyMod(a, m) /\ assigned' = assigned \cup {"k"}
            /\ pc' = "L84" /\ UNCHANGED out
    /\ UNCHANGED <<a, b, m, todo, fn, i, l, t, x, p, steps, pPrev>>

rs_zero ==
    /\ pc = "L84"
    /\ IF ~l.frac /\ l.whole = 0
       THEN Return(1)
       ELSE pc' = "L86" /\ UNCHANGED out
    /\ UNCHANGED <<a, b, m, todo, fn, k, i, l, t, x, p, assigned, steps, pPrev>>

rs_square ==
    /\ pc = "L86"
    /\ i < l.whole
    /\ k' = SquareStep(k, m)
    /\ i' = i + 1 /\ steps' = steps + 1
    /\ assigned' = assigned \cup {"i"}
    /\ UNCHANGED <<a, b, m, todo, fn, pc, l, t, x, p, pPrev, out>>

rs_return ==
    /\ pc = "L86"
    /\ ~(i < l.whole)
    /\ Return(PyMod(k, m))
    /\ UNCHANGED <<a, b, m, todo, fn, k, i, l, t, x, p, assigned, steps, pPrev>>

----------------------------------------------------------------------------
(* repeated_squares_any, lines 167-177 *)

rsa_init ==
    /\ pc = "L167"
    /\ t' = 1
    /\ IF m = 0
       THEN /\ Raise("ZeroDivisionError") /\ assigned' = {"t"}
            /\ UNCHANGED <<x, p>>
       ELSE /\ x' = PyMod(a, m) /\ p' = b
            /\ assigned' = {"t", "x", "p"}
            /\ pc' = "L170" /\ UNCHANGED out
    /\ UNCHANGED <<a, b, m, todo, fn, k, i, l, steps, pPrev>>

rsa_odd ==
    /\ pc = "L170"
    /\ IsPositive(p) /\ IsOdd(p)
    /\ t' = OddStep(t, x, m)
    /\ p' = Sub1Odd(p)
    /\ pPrev' = p /\ steps' = steps + 1
    /\ UNCHANGED <<a, b, m, todo, fn, pc, k, i, l, x, assigned, out>>

rsa_even ==
    /\ pc = "L170"
    /\ IsPositive(p) /\ ~IsOdd(p)
    /\ x' = EvenStep(x, m)
    /\ pPrev' = p /\ steps' = steps + 1
    /\ IF DivOverflows(p)
       THEN Raise("OverflowError") /\ UNCHANGED p
       ELSE p' = TrueDiv2(p) /\ UNCHANGED <<pc, out>>
    /\ UNCHANGED <<a, b, m, todo, fn, k, i, l, t, assigned>>

rsa_return ==
    /\ pc = "L170"
    /\ ~IsPositive(p)
    /\ Return(PyMod(t, m))
    /\ UNCHANGED <<a, b, m, todo, fn, k, i, l, t, x, p, assigned, steps, pPrev>>

----------------------------------------------------------------------------
Next ==
    \/ Call
    \/ bf_init \/ bf_loop \/ bf_return
    \/ rs_log \/ rs_check \/ rs_init \/ rs_zero \/ rs_square \/ rs_return
    \/ rsa_init \/ rsa_odd \/ rsa_even \/ rsa_return

Spec == Init /\ [][Next]_vars

----------------------------------------------------------------------------
(* What the properties are stated over. *)

RECURSIVE Power(_, _)
Power(base, n) == IF n = 0 THEN 1 ELSE base * Power(base, n - 1)

\* base^(2^h) mod mm, for mm >= 1, by base^(2^(g + f)) = (base^(2^g))^(2^f).
\* (The one-element sets bind the intermediate power to its value.)
RECURSIVE SquaredTimes(_, _, _)
SquaredTimes(base, h, mm) ==
    IF h = 0 THEN base % mm
    ELSE IF h = 1 THEN (base * base) % mm
    ELSE CHOOSE r \in { SquaredTimes(half, h - (h \div 2), mm) :
                          half \in {SquaredTimes(base, h \div 2, mm)} } : TRUE

\* base^e mod mm for an exponent e in binary digits and mm >= 1, by
\* base^(lo + 2^h * hi) = base^lo * (base^(2^h))^hi
RECURSIVE ModExp(_, _, _)
ModExp(base, e, mm) ==
    IF e = <<>> THEN 1 % mm
    ELSE IF Len(e) = 1 THEN (IF e[1] = 1 THEN base ELSE 1) % mm
    ELSE LET h == Len(e) \div 2
         IN  CHOOSE r \in { (ModExp(base, SubSeq(e, 1, h), mm)
                               * ModExp(sq, SubSeq(e, h + 1, Len(e)), mm)) % mm :
                            sq \in {SquaredTimes(base, h, mm)} } : TRUE

IsPowerOfTwo(s) == s # <<>> /\ \A j \in 1..(Len(s) - 1) : s[j] = 0

\* s < u for binary digits without leading zeros
Less(s, u) ==
    \/ Len(s) < Len(u)
    \/ /\ Len(s) = Len(u)
       /\ \E j \in 1..Len(s) :
             /\ s[j] < u[j]
             /\ \A h \in (j + 1)..Len(s) : s[h] = u[h]

Done(f) == out[f].status \in {"returned", "raised"}
ReturnedBy(f) == out[f].status = "returned"
RaisedBy(f, e) == out[f].status = "raised" /\ out[f].error = e
Ended == pc \in {"returned", "raised"}

\* C1: for a >= 0, b >= 0, m >= 1, repeated_squares_any returns a^b mod m
\* (1 mod m for b = 0).
C1_ReturnsPower ==
    (a >= 0 /\ ~b.neg /\ m >= 1 /\ Done("repeated_squares_any"))
    => /\ ReturnedBy("repeated_squares_any")
       /\ out["repeated_squares_any"].value = ModExp(a, b.mag, m)

C3_CrossEquivalence ==
    (a >= 0 /\ m >= 1 /\ ~b.neg /\ IsPowerOfTwo(b.mag)
        /\ \A f \in Functions : Done(f))
    => /\ \A f \in Functions : ReturnedBy(f)
       /\ \A f, g \in Functions : out[f].value = out[g].value

\* C4: for a >= 0, m >= 1 and b >= 1 not a power of two, repeated_squares
\* raises the invalid-exponent error (TypeError) and returns nothing, before
\* the accumulator k is initialised and before any squaring step.
C4_RejectsNonPower ==
    (a >= 0 /\ m >= 1 /\ IsPositive(b) /\ ~IsPowerOfTwo(b.mag)
        /\ fn = "repeated_squares")
    => /\ "k" \notin assigned /\ steps = 0
       /\ pc # "returned"
       /\ pc = "raised" => RaisedBy("repeated_squares", "TypeError")

\* C5 as stated: with m = 0, a >= 0 and b >= 0, every function ends in the
\* division-by-zero error, whatever the exponent.
C5_ModulusGuard ==
    \A f \in Functions :
        (m = 0 /\ a >= 0 /\ ~b.neg /\ Done(f)) => RaisedBy(f, "ZeroDivisionError")

\* The error repeated_squares ends in on an exponent b >= 0: the exponent is
\* checked before the modulus is used.
ExponentError(e) ==
    IF e = <<>> THEN "ValueError"
    ELSE IF ~IsPowerOfTwo(e) THEN "TypeError"
    ELSE "ZeroDivisionError"

\* C5 as amended: with m = 0, a >= 0 and b >= 0 no function returns a
\* value; brute_force and repeated_squares_any end in ZeroDivisionError for
\* every b, repeated_squares only for an exponent that passes its
\* power-of-two check: for b = 0 it ends in ValueError and for another
\* exponent the check rejects in TypeError.
C5_ModulusGuardAmended ==
    \A f \in Functions :
        (m = 0 /\ a >= 0 /\ ~b.neg /\ Done(f))
        => RaisedBy(f, IF f = "repeated_squares" THEN ExponentError(b.mag)
                       ELSE "ZeroDivisionError")

C5_Witness ==
    /\ m = 0 /\ a >= 0 /\ ~b.neg /\ b.mag # <<>> /\ ~IsPowerOfTwo(b.mag)
    /\ RaisedBy("brute_force", "ZeroDivisionError")
    /\ RaisedBy("repeated_squares", "TypeError")
    /\ RaisedBy("repeated_squares_any", "ZeroDivisionError")

\* C6: a call with a < 0, b < 0 or m < 0 ends in an error and returns no
\* number.
C6_RejectsNegative ==
    \A f \in Functions :
        ((a < 0 \/ b.neg \/ m < 0) /\ Done(f)) => out[f].status = "raised"

\* C7: for a >= 0, m >= 1, the loop of repeated_squares_any ends with p = 0
\* after at most 2*floor(log2 b) + 2 iterations (none for b = 0), every
\* iteration replacing p by the smaller p - 1 (p odd) or p / 2 (p even).
C7_Termination ==
    (a >= 0 /\ m >= 1 /\ ~b.neg /\ fn = "repeated_squares_any")
    => /\ pc # "raised"
       /\ pc = "returned" => p.mag = <<>>
       /\ IF b.mag = <<>> THEN steps = 0
          ELSE steps <= 2 * (Len(b.mag) - 1) + 2
       /\ steps > 0 =>
             /\ ~p.neg /\ Less(p.mag, pPrev.mag)
             /\ IF IsOdd(pPrev) THEN Inc(p.mag) = pPrev.mag
                ELSE p.mag = Tail(pPrev.mag)

\* C8: in repeated_squares_any, for a >= 0, b >= 0, m >= 1,
\* (t * x^p) mod m = a^b mod m before the first iteration and after every
\* odd and every even step, so the value returned is a^b mod m.
C8_LoopInvariant ==
    (a >= 0 /\ m >= 1 /\ ~b.neg /\ fn = "repeated_squares_any"
        /\ pc \in {"L170", "returned"})
    => /\ (t * ModExp(x, p.mag, m)) % m = ModExp(a, b.mag, m)
       /\ pc = "returned" =>
             out["repeated_squares_any"].value = ModExp(a, b.mag, m)

\* C9: in repeated_squares with b = 2^l, a >= 0, m >= 1, after j squaring
\* iterations (0 <= j <= l) the accumulator k equals a^(2^j) mod m.
C9_SquaringInvariant ==
    (a >= 0 /\ m >= 1 /\ ~b.neg /\ IsPowerOfTwo(b.mag)
        /\ fn = "repeated_squares" /\ "k" \in assigned)
    => k = ModExp(a, Pow2Plus(i, 0), m)

\* C10: in brute_force, for a >= 0, b >= 0, m >= 1, after the j-th
\* iteration (1 <= j <= b) k equals a^j mod m, so k stays within 0..m-1.
C10_ReducedAccumulator ==
    (a >= 0 /\ m >= 1 /\ ~b.neg /\ fn = "brute_force" /\ i >= 1)
    => /\ k = Power(a, i) % m
       /\ k \in 0..(m - 1)

====
